---- MODULE Spec2Model ----
(***************************************************************************)
(* Model of services/downloadManager.ts: the DownloadManager singleton,    *)
(* its two persistence backends (OPFS file handle, IndexedDB chunks), the  *)
(* transfer loops runOpfsDownload / runIdbDownload as asynchronous tasks   *)
(* with one step per awaited I/O operation, and the caller's operations    *)
(* startDownload, resumeDownload, pauseDownload and deleteModel.           *)
(*                                                                         *)
(* Bytes are counted in units of 2.5 MiB, so CHUNK_SIZE (5 MiB) is 2.      *)
(* The byte served at offset i (0-based) is i + 1; 0 is a padding byte.    *)
(***************************************************************************)
EXTENDS Integers, Sequences, FiniteSets, TLC

VARIABLES
    isOpfsSupported,  \* constructor's capability probe
    rootOk,           \* opfsRootPromise resolved to a directory (not null)
    serverTotal,      \* Content-Length the server reports for the url
    controllers,      \* Map<modelName, AbortController>: 0 = no entry, l = loop l's controller
    meta,             \* META_STORE
    chunks,           \* CHUNKS_STORE, per model: chunkIndex -> bytes
    consolidated,     \* CONSOLIDATED_STORE
    file,             \* OPFS entries
    pendingPuts,      \* META_STORE puts issued by handleDownloadError and not yet committed
    loops,            \* the transfer attempts of this process
    dels,             \* the caller's deleteModel calls in progress
    budget,           \* operations the exploration may still perform
    lastCall          \* the start/resume calls made by the last steps, if any

vars == <<isOpfsSupported, rootOk, serverTotal, controllers, meta, chunks,
          consolidated, file, pendingPuts, loops, dels, budget, lastCall>>

env == <<isOpfsSupported, rootOk, serverTotal>>
idb == <<meta, chunks, consolidated>>

----------------------------------------------------------------------------
(* Bounds of the exploration *)

MaxAttempts == 2
MaxDeletes == 1
MaxPauses == 1
MaxRestarts == 1
MaxFaults == 1
MaxBuf == 2
MaxChunkIndex == 4

(* const CHUNK_SIZE = 5 * 1024 * 1024, in units of 2.5 MiB *)
CHUNK_SIZE == 2

(* the artifacts of an exploration: the keys of the controllers map and of the stores *)
Models == DOMAIN controllers
Totals == {3}
Keys == {"hf_key"}

NoMeta == [total |-> -1, status |-> "absent", downloaded |-> -1, error |-> "none"]
NoFile == <<-1>>
NoBlob == <<-1>>

AbortError == "AbortError"

Min(a, b) == IF a < b THEN a ELSE b
Max(a, b) == IF a > b THEN a ELSE b

(* The bytes the server holds for the url: offsets 0 .. serverTotal - 1 *)
ServerBytes(from, n) == [i \in 1..n |-> from + i]

----------------------------------------------------------------------------
(* Records written to META_STORE *)

MetaDownloading(total) ==
    [total |-> total, status |-> "downloading", downloaded |-> -1, error |-> "none"]

MetaCompletedOpfs(total) ==
    [total |-> total, status |-> "completed", downloaded |-> -1, error |-> "none"]

MetaCompletedIdb(total) ==
    [total |-> total, status |-> "completed", downloaded |-> total, error |-> "none"]

MetaPaused(total, downloaded) ==
    [total |-> total, status |-> "paused", downloaded |-> downloaded, error |-> "none"]

MetaError(total, msg) ==
    [total |-> total, status |-> "error", downloaded |-> -1, error |-> msg]

----------------------------------------------------------------------------
(* Storage primitives *)

WriteAtAppend(f, pos, data) == f \o data

(* FileSystemWritableFileStream.write at position pos: bytes before pos are  *)
(* kept (zero-padded when pos is past the end), bytes after the written      *)
(* range are kept.                                                           *)
WriteAt(f, pos, data) ==
    [i \in 1..Max(Len(f), pos + Len(data)) |->
        IF i <= pos THEN (IF i <= Len(f) THEN f[i] ELSE 0)
        ELSE IF i <= pos + Len(data) THEN data[i - pos]
        ELSE f[i]]

RECURSIVE ConcatFrom(_, _)
ConcatFrom(c, idxs) ==
    IF idxs = {} THEN <<>>
    ELSE LET i == CHOOSE x \in idxs : \A y \in idxs : x <= y
         IN c[i] \o ConcatFrom(c, idxs \ {i})

(* cursor over the modelName index: chunks in ascending chunkIndex order *)
ConcatChunks(c) == ConcatFrom(c, DOMAIN c)

RECURSIVE SumLen(_, _)
SumLen(c, idxs) ==
    IF idxs = {} THEN 0
    ELSE LET i == CHOOSE x \in idxs : TRUE
         IN Len(c[i]) + SumLen(c, idxs \ {i})

ChunkBytesNone(c) == 0

(* chunks.reduce((acc, chunk) => acc + chunk.data.byteLength, 0) *)
ChunkBytes(c) == SumLen(c, DOMAIN c)

NoChunks == [i \in {} |-> <<>>]

PutChunkAtZero(c, idx, data) == [i \in (DOMAIN c) \cup {0} |-> IF i = 0 THEN data ELSE c[i]]

(* db.put(CHUNKS_STORE, { modelName, chunkIndex, data }) *)
PutChunk(c, idx, data) == [i \in (DOMAIN c) \cup {idx} |-> IF i = idx THEN data ELSE c[i]]

----------------------------------------------------------------------------
(* Transfer attempts *)

NewLoop(m, isResume, pc) ==
    [m |-> m, pc |-> pc, call |-> IF isResume THEN "resume" ELSE "start",
     isResume |-> isResume, sig |-> FALSE, paused |-> FALSE, deleted |-> FALSE,
     downloaded |-> 0, startedAt |-> 0, restart |-> FALSE, total |-> 0, chunkIndex |-> 0, buf |-> 0,
     swap |-> <<>>, w |-> "none", ctotal |-> 0, cdown |-> 0, blob |-> <<>>, msg |-> "none",
     lastEv |-> "none", evDown |-> -1, evTotal |-> -1, result |-> "none"]

Running(l) == loops[l].pc # "done"
LoopIds == DOMAIN loops
RunningFor(m) == {l \in LoopIds : loops[l].m = m /\ Running(l)}

(* A createWritable stream that was neither closed nor aborted keeps its     *)
(* lock on the entry; removeEntry needs the entry unlocked.                  *)
Locked(m) == \E l \in LoopIds : loops[l].m = m /\ loops[l].w \in {"open", "abandoned"}

----------------------------------------------------------------------------
(* Initial state: a fresh installation, nothing stored, no transfer running *)

InitFor(names, backends, totals, b) ==
    /\ isOpfsSupported \in backends
    /\ rootOk \in BOOLEAN
    /\ (~isOpfsSupported => ~rootOk)
    /\ serverTotal \in totals
    /\ controllers = [m \in names |-> 0]
    /\ meta = [m \in names |-> NoMeta]
    /\ chunks = [m \in names |-> NoChunks]
    /\ consolidated = [m \in names |-> NoBlob]
    /\ file = [m \in names |-> NoFile]
    /\ pendingPuts = <<>>
    /\ loops = <<>>
    /\ dels = <<>>
    /\ budget = b
    /\ lastCall = <<>>

InitWith(backends, totals, b) == InitFor({"m1"}, backends, totals, b)

Init ==
    InitWith(BOOLEAN, Totals,
             [starts |-> MaxAttempts, deletes |-> MaxDeletes, pauses |-> MaxPauses,
              restarts |-> 0, faults |-> MaxFaults])

(* A transaction on META_STORE runs after the transactions created before it *)
MetaStoreReady == pendingPuts = <<>>

CanFault == budget.faults > 0
Fault == budget' = [budget EXCEPT !.faults = @ - 1]

----------------------------------------------------------------------------
HasControllerNever(m) == FALSE

(* this.controllers.has(modelName) *)
HasController(m) == controllers[m] # 0

AbortEvery(ls, m) == [l \in DOMAIN ls |-> [ls[l] EXCEPT !.sig = TRUE]]

(* pauseDownload: controller.abort() on the registered controller, if any *)
AbortRegistered(ls, m) ==
    IF controllers[m] # 0 /\ controllers[m] \in DOMAIN ls
    THEN [ls EXCEPT ![controllers[m]].sig = TRUE]
    ELSE ls

(* the caller called pause or delete for m while these loops were running *)
CalledWhileRunning(ls, m, byDelete) ==
    [l \in DOMAIN ls |->
        IF ls[l].m = m /\ ls[l].pc # "done"
        THEN [ls[l] EXCEPT !.paused = TRUE, !.deleted = @ \/ byDelete]
        ELSE ls[l]]

RemoveEntryAll(m) == [x \in DOMAIN controllers |-> 0]

(* this.controllers.delete(modelName) in pauseDownload *)
RemoveEntry(m) == [controllers EXCEPT ![m] = 0]

(* finally { this.controllers.delete(modelName) } *)
FinallyDelete(m) == [controllers EXCEPT ![m] = 0]

(* onProgress({ downloaded, total, percent, status }): the last event the caller received *)
Emit(L, status, downloaded, total) ==
    [L EXCEPT !.lastEv = status, !.evDown = downloaded, !.evTotal = total]

(* The loop has ended, with a last event or (ev = "none") without one: its   *)
(* locals are gone; a writable it left open is abandoned                     *)
Finished(L, ev, downloaded, total) ==
    [NewLoop(L.m, FALSE, "done") EXCEPT !.call = L.call, !.paused = L.paused,
                                        !.deleted = L.deleted,
                                        !.startedAt = L.startedAt,
                                        !.lastEv = IF ev = "none" THEN L.lastEv ELSE ev,
                                        !.evDown = IF ev = "none" THEN L.evDown ELSE downloaded,
                                        !.evTotal = IF ev = "none" THEN L.evTotal ELSE total,
                                        !.result = ev,
                                        !.w = IF L.w = "open" THEN "abandoned" ELSE L.w]

HandlerRecordAlwaysError(L, err) == MetaError(L.total, err)

(* handleDownloadError: the record it hands to db.put without awaiting it *)
HandlerRecord(L, err) ==
    IF err = AbortError
    THEN MetaPaused(L.total, L.downloaded)
    ELSE MetaError(L.total, err)

HandlerEvent(err) == IF err = AbortError THEN "paused" ELSE "error"

(* catch (error) { handleDownloadError(...) } finally { controllers.delete } *)
Throw(l, err) ==
    /\ pendingPuts' = Append(pendingPuts, [m |-> loops[l].m, rec |-> HandlerRecord(loops[l], err)])
    /\ loops' = [loops EXCEPT ![l] = Finished(loops[l], HandlerEvent(err),
                                              loops[l].downloaded, loops[l].total)]
    /\ controllers' = FinallyDelete(loops[l].m)

(* a step of loop l that only changes the loop's own locals *)
Local(l, r) ==
    /\ loops' = [loops EXCEPT ![l] = r]
    /\ UNCHANGED <<controllers, pendingPuts>>

----------------------------------------------------------------------------
(* The caller's operations *)

FirstPc(isResume) == IF isOpfsSupported THEN "o_open" ELSE IF isResume THEN "i_begin" ELSE "i_purge"

KeyMissingIgnored(m) == NewLoop(m, FALSE, FirstPc(FALSE))

(* run*Download with an empty hfApiKey: one 'error' event, then return (lines 81-84) *)
KeyMissing(m) ==
    [NewLoop(m, FALSE, "done") EXCEPT !.lastEv = "error", !.evDown = 0, !.evTotal = 0,
                                      !.result = "error",
                                      !.msg = "Hugging Face API Key is required."]

(* the last two startDownload / resumeDownload calls, when no other step came between them *)
Called(op, m, inserted) ==
    IF lastCall = <<>>
    THEN <<[op |-> op, m |-> m, inserted |-> inserted]>>
    ELSE <<lastCall[Len(lastCall)], [op |-> op, m |-> m, inserted |-> inserted]>>

(* startDownload / resumeDownload, up to the first await of run*Download *)
BeginTransfer(op, m, key, isResume) ==
    /\ budget.starts > 0
    /\ budget' = [budget EXCEPT !.starts = @ - 1]
    /\ IF HasController(m)
       THEN /\ UNCHANGED <<controllers, loops>>
            /\ lastCall' = Called(op, m, FALSE)
       ELSE IF key = ""
       THEN /\ loops' = Append(loops, KeyMissing(m))
            /\ UNCHANGED controllers
            /\ lastCall' = Called(op, m, FALSE)
       ELSE /\ loops' = Append(loops, NewLoop(m, isResume, FirstPc(isResume)))
            /\ controllers' = [controllers EXCEPT ![m] = Len(loops) + 1]
            /\ lastCall' = Called(op, m, TRUE)
    /\ UNCHANGED <<env, idb, file, pendingPuts, dels>>

startDownload(m, key) == BeginTransfer("start", m, key, FALSE)

resumeDownload(m, key) == BeginTransfer("resume", m, key, TRUE)

pauseDownload(m) ==
    /\ budget.pauses > 0
    /\ loops' = CalledWhileRunning(AbortRegistered(loops, m), m, FALSE)
    /\ controllers' = RemoveEntry(m)
    /\ budget' = [budget EXCEPT !.pauses = @ - 1]
    /\ lastCall' = <<>>
    /\ UNCHANGED <<env, idb, file, pendingPuts, dels>>

(* deleteModel up to its first await: this.pauseDownload(modelName) *)
deleteModel(m) ==
    /\ budget.deletes > 0
    /\ loops' = CalledWhileRunning(AbortRegistered(loops, m), m, TRUE)
    /\ controllers' = RemoveEntry(m)
    /\ dels' = Append(dels, [m |-> m, pc |-> IF isOpfsSupported THEN "d_remove" ELSE "d_meta",
                              idle |-> RunningFor(m) = {} /\ pendingPuts = <<>> /\ dels = <<>>])
    /\ budget' = [budget EXCEPT !.deletes = @ - 1]
    /\ lastCall' = <<>>
    /\ UNCHANGED <<env, idb, file, pendingPuts>>

RemoveAt(s, i) == [j \in 1..(Len(s) - 1) |-> IF j < i THEN s[j] ELSE s[j + 1]]

(* root.removeEntry(modelName); a failure is caught and logged *)
DelRemoveEntry(d) ==
    /\ lastCall' = <<>>
    /\ dels[d].pc = "d_remove"
    /\ file' = IF rootOk /\ ~Locked(dels[d].m) THEN [file EXCEPT ![dels[d].m] = NoFile] ELSE file
    /\ dels' = [dels EXCEPT ![d].pc = "d_meta"]
    /\ UNCHANGED <<env, idb, controllers, pendingPuts, loops, budget>>

(* db.delete(META_STORE, modelName) *)
DelMeta(d) ==
    /\ lastCall' = <<>>
    /\ dels[d].pc = "d_meta"
    /\ MetaStoreReady
    /\ meta' = [meta EXCEPT ![dels[d].m] = NoMeta]
    /\ dels' = [dels EXCEPT ![d].pc = "d_cons"]
    /\ UNCHANGED <<env, chunks, consolidated, file, controllers, pendingPuts, loops, budget>>

(* db.delete(CONSOLIDATED_STORE, modelName) *)
DelConsolidated(d) ==
    /\ lastCall' = <<>>
    /\ dels[d].pc = "d_cons"
    /\ consolidated' = [consolidated EXCEPT ![dels[d].m] = NoBlob]
    /\ dels' = [dels EXCEPT ![d].pc = "d_chunks"]
    /\ UNCHANGED <<env, meta, chunks, file, controllers, pendingPuts, loops, budget>>

(* _deleteChunks(modelName); deleteModel returns *)
DelChunks(d) ==
    /\ lastCall' = <<>>
    /\ dels[d].pc = "d_chunks"
    /\ chunks' = [chunks EXCEPT ![dels[d].m] = NoChunks]
    /\ dels' = RemoveAt(dels, d)
    /\ UNCHANGED <<env, meta, consolidated, file, controllers, pendingPuts, loops, budget>>

(* The put issued by handleDownloadError commits *)
CommitPut ==
    /\ lastCall' = <<>>
    /\ pendingPuts # <<>>
    /\ meta' = [meta EXCEPT ![Head(pendingPuts).m] = Head(pendingPuts).rec]
    /\ pendingPuts' = Tail(pendingPuts)
    /\ UNCHANGED <<env, chunks, consolidated, file, controllers, loops, dels, budget>>

(* The page is closed or crashes and the application is loaded again: the    *)
(* in-memory state is gone, uncommitted transactions and unclosed writables  *)
(* are discarded, the stores and the committed files remain.                 *)
Restart ==
    /\ lastCall' = <<>>
    /\ budget.restarts > 0
    /\ controllers' = [m \in Models |-> 0]
    /\ loops' = <<>>
    /\ dels' = <<>>
    /\ pendingPuts' = <<>>
    /\ budget' = [budget EXCEPT !.restarts = @ - 1]
    /\ UNCHANGED <<env, idb, file>>

(* An abandoned writable stream is garbage-collected and its lock released *)
CollectWritable(l) ==
    /\ lastCall' = <<>>
    /\ loops[l].w = "abandoned"
    /\ loops' = [loops EXCEPT ![l].w = "none"]
    /\ UNCHANGED <<env, idb, file, controllers, pendingPuts, dels, budget>>

----------------------------------------------------------------------------
(* runOpfsDownload, one action per awaited operation *)

LoopStep(l, pc) == l \in LoopIds /\ loops[l].pc = pc

(* a step of loop l that touches nothing outside the loop *)
Quiet == UNCHANGED <<env, idb, file, dels>>

(* getOpfsRoot(); root.getFileHandle(modelName, { create: true }) *)
OpfsOpen(l) ==
    /\ lastCall' = <<>>
    /\ LoopStep(l, "o_open")
    /\ IF ~rootOk
       THEN Throw(l, "Could not access OPFS.") /\ UNCHANGED file
       ELSE /\ file' = [file EXCEPT ![loops[l].m] = IF @ = NoFile THEN <<>> ELSE @]
            /\ Local(l, [loops[l] EXCEPT !.pc = "o_meta"])
    /\ UNCHANGED <<env, idb, dels, budget>>

(* db.get(META_STORE, modelName) and the test of line 100 *)
OpfsReadMeta(l) ==
    /\ lastCall' = <<>>
    /\ LoopStep(l, "o_meta")
    /\ MetaStoreReady
    /\ LET L == loops[l]
           mt == meta[L.m]
       IN IF L.isResume /\ mt # NoMeta /\ mt.total > 0
          THEN Local(l, [L EXCEPT !.total = mt.total, !.pc = "o_size"])
          ELSE Local(l, [L EXCEPT !.pc = "o_head"])
    /\ Quiet /\ UNCHANGED budget

ResumeOffsetZero(size, total) == 0

(* where a resumed file transfer continues: lines 103-108 *)
ResumeOffset(size, total) == IF size >= total THEN 0 ELSE size

(* fileHandle.getFile() on resume *)
OpfsResumeSize(l) ==
    /\ lastCall' = <<>>
    /\ LoopStep(l, "o_size")
    /\ LET L == loops[l]
       IN IF file[L.m] = NoFile
          THEN Throw(l, "NotFoundError")
          ELSE Local(l, [L EXCEPT !.downloaded = ResumeOffset(Len(file[L.m]), L.total),
                                  !.startedAt = ResumeOffset(Len(file[L.m]), L.total),
                                  !.restart = Len(file[L.m]) >= L.total,
                                  !.pc = "o_putmeta"])
    /\ Quiet /\ UNCHANGED budget

(* fetch(url, { method: 'HEAD', signal }) and the checks of lines 118-121 *)
OpfsHead(l) ==
    /\ lastCall' = <<>>
    /\ LoopStep(l, "o_head")
    /\ LET L == loops[l]
       IN IF L.sig
          THEN Throw(l, AbortError) /\ UNCHANGED budget
          ELSE \/ /\ Local(l, [L EXCEPT !.total = serverTotal, !.downloaded = 0, !.pc = "o_putmeta"])
                  /\ UNCHANGED budget
               \/ /\ CanFault /\ Fault
                  /\ \E e \in {"Failed to get model info.", "Could not determine file size."} : Throw(l, e)
    /\ Quiet

(* db.put(META_STORE, { modelName, total, status: 'downloading' }); onProgress *)
OpfsPutMeta(l) ==
    /\ lastCall' = <<>>
    /\ LoopStep(l, "o_putmeta")
    /\ MetaStoreReady
    /\ LET L == loops[l]
       IN /\ meta' = [meta EXCEPT ![L.m] = MetaDownloading(L.total)]
          /\ Local(l, [Emit(L, "downloading", L.downloaded, L.total)
                          EXCEPT !.pc = IF L.downloaded < L.total THEN "o_get" ELSE "o_final"])
    /\ UNCHANGED <<env, chunks, consolidated, file, dels, budget>>

(* fetch(url, { headers: { Range: `bytes=${downloaded}-` }, signal }) *)
OpfsGet(l) ==
    /\ lastCall' = <<>>
    /\ LoopStep(l, "o_get")
    /\ LET L == loops[l]
       IN IF L.sig
          THEN Throw(l, AbortError) /\ UNCHANGED budget
          ELSE IF L.downloaded >= serverTotal   \* 416 Range Not Satisfiable: !response.ok
          THEN Throw(l, "Download request failed.") /\ UNCHANGED budget
          ELSE \/ Local(l, [L EXCEPT !.pc = "o_createw"]) /\ UNCHANGED budget
               \/ CanFault /\ Fault /\ Throw(l, "Download request failed.")
    /\ Quiet

(* fileHandle.createWritable({ keepExistingData: true }); writable.seek(downloaded) *)
OpfsCreateWritable(l) ==
    /\ lastCall' = <<>>
    /\ LoopStep(l, "o_createw")
    /\ LET L == loops[l]
       IN IF file[L.m] = NoFile
          THEN Throw(l, "NotFoundError")
          ELSE Local(l, [L EXCEPT !.swap = file[L.m], !.w = "open", !.pc = "o_read"])
    /\ Quiet /\ UNCHANGED budget

(* reader.read(): a buffer of the body, its end, or a rejection *)
OpfsRead(l) ==
    /\ lastCall' = <<>>
    /\ LoopStep(l, "o_read")
    /\ LET L == loops[l]
           left == serverTotal - L.downloaded   \* what is left of the body of the range request
       IN \/ /\ L.sig
             /\ Throw(l, AbortError) /\ UNCHANGED budget
          \/ /\ ~L.sig /\ left > 0
             /\ \E n \in 1..Min(MaxBuf, left) : Local(l, [L EXCEPT !.buf = n, !.pc = "o_write"])
             /\ UNCHANGED budget
          \/ /\ left <= 0
             /\ Local(l, [L EXCEPT !.pc = "o_close"]) /\ UNCHANGED budget
          \/ /\ ~L.sig /\ left > 0 /\ CanFault /\ Fault
             /\ \/ Throw(l, "network error")
                \/ Local(l, [L EXCEPT !.pc = "o_close"])
    /\ Quiet

(* writable.write(value); downloaded += value.length; onProgress *)
OpfsWrite(l) ==
    /\ lastCall' = <<>>
    /\ LoopStep(l, "o_write")
    /\ LET L == loops[l]
       IN \/ /\ Local(l, [Emit(L, "downloading", L.downloaded + L.buf, L.total)
                             EXCEPT !.swap = WriteAt(@, L.downloaded, ServerBytes(L.downloaded, L.buf)),
                                    !.downloaded = @ + L.buf, !.buf = 0, !.pc = "o_read"])
             /\ UNCHANGED budget
          \/ CanFault /\ Fault /\ Throw(l, "QuotaExceededError")
    /\ Quiet

(* writable.close(): the written data replaces the file *)
OpfsClose(l) ==
    /\ lastCall' = <<>>
    /\ LoopStep(l, "o_close")
    /\ LET L == loops[l]
       IN /\ file' = [file EXCEPT ![L.m] = L.swap]
          /\ Local(l, [L EXCEPT !.swap = <<>>, !.w = "closed", !.pc = "o_final"])
    /\ UNCHANGED <<env, idb, dels, budget>>

(* the test of line 150 *)
SizeMatches(size, total) == size = total

(* fileHandle.getFile() and the size check of lines 149-152 *)
OpfsFinalCheck(l) ==
    /\ lastCall' = <<>>
    /\ LoopStep(l, "o_final")
    /\ LET L == loops[l]
       IN IF file[L.m] = NoFile
          THEN Throw(l, "NotFoundError")
          ELSE IF ~SizeMatches(Len(file[L.m]), L.total)
          THEN Throw(l, "Final file size does not match expected size")
          ELSE Local(l, [L EXCEPT !.pc = "o_done"])
    /\ Quiet /\ UNCHANGED budget

(* db.put(META_STORE, { modelName, total, status: 'completed' }); onProgress; finally *)
OpfsComplete(l) ==
    /\ lastCall' = <<>>
    /\ LoopStep(l, "o_done")
    /\ MetaStoreReady
    /\ LET L == loops[l]
       IN /\ meta' = [meta EXCEPT ![L.m] = MetaCompletedOpfs(L.total)]
          /\ loops' = [loops EXCEPT ![l] = Finished(L, "completed", L.total, L.total)]
          /\ controllers' = FinallyDelete(L.m)
    /\ UNCHANGED <<env, chunks, consolidated, file, pendingPuts, dels, budget>>

----------------------------------------------------------------------------
(* runIdbDownload, one action per awaited operation *)

(* on resume: db.get(META_STORE, modelName), lines 181-187 *)
IdbBegin(l) ==
    /\ lastCall' = <<>>
    /\ LoopStep(l, "i_begin")
    /\ MetaStoreReady
    /\ LET L == loops[l]
           mt == meta[L.m]
       IN IF mt = NoMeta \/ mt.total <= 0
          THEN \* return this.runIdbDownload(..., false): the inner call registers a new
               \* controller, then the outer finally deletes the entry
               /\ loops' = [loops EXCEPT ![l] = [L EXCEPT !.isResume = FALSE, !.sig = FALSE, !.pc = "i_purge"]]
               /\ controllers' = FinallyDelete(L.m)
          ELSE /\ loops' = [loops EXCEPT ![l] = [L EXCEPT !.total = mt.total, !.pc = "i_chunks"]]
               /\ UNCHANGED controllers
    /\ UNCHANGED pendingPuts
    /\ Quiet /\ UNCHANGED budget

(* a fresh start calls deleteModel (line 192), which begins with this.pauseDownload(modelName) *)
IdbPurgeStart(l) ==
    /\ lastCall' = <<>>
    /\ LoopStep(l, "i_purge")
    /\ loops' = [AbortRegistered(loops, loops[l].m) EXCEPT ![l].pc = "i_del_meta"]
    /\ controllers' = RemoveEntry(loops[l].m)
    /\ UNCHANGED pendingPuts
    /\ Quiet /\ UNCHANGED budget

(* db.getAllFromIndex(CHUNKS_STORE, 'modelName', modelName), lines 188-190 *)
IdbCountChunks(l) ==
    /\ lastCall' = <<>>
    /\ LoopStep(l, "i_chunks")
    /\ LET L == loops[l]
       IN Local(l, [L EXCEPT !.downloaded = ChunkBytes(chunks[L.m]),
                             !.startedAt = ChunkBytes(chunks[L.m]),
                             !.chunkIndex = Cardinality(DOMAIN chunks[L.m]),
                             !.pc = "i_putmeta"])
    /\ Quiet /\ UNCHANGED budget

(* deleteModel inside a fresh start: db.delete(META_STORE, modelName) *)
IdbPurgeMeta(l) ==
    /\ lastCall' = <<>>
    /\ LoopStep(l, "i_del_meta")
    /\ MetaStoreReady
    /\ meta' = [meta EXCEPT ![loops[l].m] = NoMeta]
    /\ Local(l, [loops[l] EXCEPT !.pc = "i_del_cons"])
    /\ UNCHANGED <<env, chunks, consolidated, file, dels, budget>>

(* db.delete(CONSOLIDATED_STORE, modelName) *)
IdbPurgeConsolidated(l) ==
    /\ lastCall' = <<>>
    /\ LoopStep(l, "i_del_cons")
    /\ consolidated' = [consolidated EXCEPT ![loops[l].m] = NoBlob]
    /\ Local(l, [loops[l] EXCEPT !.pc = "i_del_chunks"])
    /\ UNCHANGED <<env, meta, chunks, file, dels, budget>>

(* _deleteChunks(modelName) *)
IdbPurgeChunks(l) ==
    /\ lastCall' = <<>>
    /\ LoopStep(l, "i_del_chunks")
    /\ chunks' = [chunks EXCEPT ![loops[l].m] = NoChunks]
    /\ Local(l, [loops[l] EXCEPT !.pc = "i_head"])
    /\ UNCHANGED <<env, meta, consolidated, file, dels, budget>>

(* fetch(url, { method: 'HEAD', signal }) and the checks of lines 198-200 *)
IdbHead(l) ==
    /\ lastCall' = <<>>
    /\ LoopStep(l, "i_head")
    /\ LET L == loops[l]
       IN IF L.sig
          THEN Throw(l, AbortError) /\ UNCHANGED budget
          ELSE \/ Local(l, [L EXCEPT !.total = serverTotal, !.pc = "i_putmeta"]) /\ UNCHANGED budget
               \/ /\ CanFault /\ Fault
                  /\ \E e \in {"Failed to get model info.", "Could not determine file size."} : Throw(l, e)
    /\ Quiet

(* db.put(META_STORE, { modelName, total, status: 'downloading' }) and the loop test *)
IdbPutMeta(l) ==
    /\ lastCall' = <<>>
    /\ LoopStep(l, "i_putmeta")
    /\ MetaStoreReady
    /\ LET L == loops[l]
       IN /\ meta' = [meta EXCEPT ![L.m] = MetaDownloading(L.total)]
          /\ Local(l, [L EXCEPT !.pc = IF L.downloaded < L.total THEN "i_fetch" ELSE "c_meta"])
    /\ UNCHANGED <<env, chunks, consolidated, file, dels, budget>>

(* the range of one chunk request: start = downloaded, end = min(downloaded + CHUNK_SIZE - 1, total - 1) *)
RangeLen(downloaded, total) == Min(downloaded + CHUNK_SIZE - 1, total - 1) - downloaded + 1

(* chunk.byteLength: the part of the requested range that the server holds;  *)
(* an empty file is served as 200 with an empty body                         *)
BodyLen(downloaded, total) == Min(RangeLen(downloaded, total), Max(0, serverTotal - downloaded))

(* fetch(url, { headers: { Range: `bytes=${start}-${end}` }, signal }); arrayBuffer() *)
IdbFetchChunk(l) ==
    /\ lastCall' = <<>>
    /\ LoopStep(l, "i_fetch")
    /\ LET L == loops[l]
       IN IF L.sig
          THEN Throw(l, AbortError) /\ UNCHANGED budget
          ELSE IF serverTotal > 0 /\ L.downloaded >= serverTotal   \* 416: !chunkResponse.ok
          THEN Throw(l, "Chunk download failed.") /\ UNCHANGED budget
          ELSE \/ /\ L.chunkIndex < MaxChunkIndex
                  /\ Local(l, [L EXCEPT !.buf = BodyLen(L.downloaded, L.total), !.pc = "i_putchunk"])
                  /\ UNCHANGED budget
               \/ CanFault /\ Fault /\ Throw(l, "Chunk download failed.")
    /\ Quiet

(* db.put(CHUNKS_STORE, { modelName, chunkIndex, data }); counters; onProgress; loop test *)
IdbPutChunk(l) ==
    /\ lastCall' = <<>>
    /\ LoopStep(l, "i_putchunk")
    /\ LET L == loops[l]
       IN \/ /\ chunks' = [chunks EXCEPT ![L.m] = PutChunk(@, L.chunkIndex, ServerBytes(L.downloaded, L.buf))]
             /\ Local(l, [Emit(L, "downloading", L.downloaded + L.buf, L.total)
                             EXCEPT !.downloaded = @ + L.buf, !.chunkIndex = @ + 1, !.buf = 0,
                                    !.pc = IF L.downloaded + L.buf < L.total THEN "i_fetch" ELSE "c_meta"])
             /\ UNCHANGED budget
          \/ CanFault /\ Fault /\ Throw(l, "QuotaExceededError") /\ UNCHANGED chunks
    /\ UNCHANGED <<env, meta, consolidated, file, dels>>

----------------------------------------------------------------------------
(* _consolidateModel, called at the end of runIdbDownload *)

(* meta.downloaded || total: the stored counter unless it is missing or 0 *)
StoredOr(stored, total) == IF stored > 0 THEN stored ELSE total

(* db.get(META_STORE, modelName); if (!meta) return; onProgress 'consolidating' *)
ConsolidateReadMeta(l) ==
    /\ lastCall' = <<>>
    /\ LoopStep(l, "c_meta")
    /\ MetaStoreReady
    /\ LET L == loops[l]
           mt == meta[L.m]
       IN IF mt = NoMeta
          THEN /\ loops' = [loops EXCEPT ![l] = Finished(L, "none", 0, 0)]
               /\ controllers' = FinallyDelete(L.m)
          ELSE /\ loops' = [loops EXCEPT ![l] =
                                [Emit(L, "consolidating", StoredOr(mt.downloaded, Max(mt.total, 0)),
                                      Max(mt.total, 0))
                                 EXCEPT !.ctotal = Max(mt.total, 0),
                                        !.cdown = StoredOr(mt.downloaded, Max(mt.total, 0)),
                                        !.pc = "c_first"]]
               /\ UNCHANGED controllers
    /\ UNCHANGED pendingPuts
    /\ Quiet /\ UNCHANGED budget

(* getModelFromChunksAsStream: db.getFromIndex(...) finds no chunk and returns null *)
ConsolidateFirstChunk(l) ==
    /\ lastCall' = <<>>
    /\ LoopStep(l, "c_first")
    /\ LET L == loops[l]
       IN IF DOMAIN chunks[L.m] = {}
          THEN Local(l, [L EXCEPT !.msg = "Failed to reconstruct model from chunks.", !.pc = "c_err"])
          ELSE Local(l, [L EXCEPT !.pc = "c_build"])
    /\ Quiet /\ UNCHANGED budget

(* the stream's cursor in one read transaction; new Response(stream).blob() *)
ConsolidateBuild(l) ==
    /\ lastCall' = <<>>
    /\ LoopStep(l, "c_build")
    /\ \/ /\ Local(l, [loops[l] EXCEPT !.blob = ConcatChunks(chunks[loops[l].m]), !.pc = "c_putblob"])
          /\ UNCHANGED budget
       \/ /\ CanFault /\ Fault   \* blob() rejects: catch { return null }
          /\ Local(l, [loops[l] EXCEPT !.msg = "Failed to reconstruct model from chunks.", !.pc = "c_err"])
    /\ Quiet

(* db.put(CONSOLIDATED_STORE, { modelName, blob }) *)
ConsolidatePutBlob(l) ==
    /\ lastCall' = <<>>
    /\ LoopStep(l, "c_putblob")
    /\ LET L == loops[l]
       IN \/ /\ consolidated' = [consolidated EXCEPT ![L.m] = L.blob]
             /\ Local(l, [L EXCEPT !.blob = <<>>, !.pc = "c_delchunks"])
             /\ UNCHANGED budget
          \/ /\ CanFault /\ Fault
             /\ Local(l, [L EXCEPT !.blob = <<>>, !.msg = "QuotaExceededError", !.pc = "c_err"])
             /\ UNCHANGED consolidated
    /\ UNCHANGED <<env, meta, chunks, file, dels>>

(* _deleteChunks(modelName) *)
ConsolidateDeleteChunks(l) ==
    /\ lastCall' = <<>>
    /\ LoopStep(l, "c_delchunks")
    /\ \/ /\ chunks' = [chunks EXCEPT ![loops[l].m] = NoChunks]
          /\ Local(l, [loops[l] EXCEPT !.pc = "c_putmeta"])
          /\ UNCHANGED budget
       \/ /\ CanFault /\ Fault   \* the transaction aborts: tx.done rejects, nothing is deleted
          /\ Local(l, [loops[l] EXCEPT !.msg = "AbortError: transaction", !.pc = "c_err"])
          /\ UNCHANGED chunks
    /\ UNCHANGED <<env, meta, consolidated, file, dels>>

(* db.put(META_STORE, { ..., status: 'completed', downloaded: total }); onProgress; finally *)
ConsolidateComplete(l) ==
    /\ lastCall' = <<>>
    /\ LoopStep(l, "c_putmeta")
    /\ MetaStoreReady
    /\ LET L == loops[l]
       IN \/ /\ meta' = [meta EXCEPT ![L.m] = MetaCompletedIdb(L.ctotal)]
             /\ loops' = [loops EXCEPT ![l] = Finished(L, "completed", L.ctotal, L.ctotal)]
             /\ controllers' = FinallyDelete(L.m)
             /\ UNCHANGED <<pendingPuts, budget>>
          \/ /\ CanFault /\ Fault   \* the put of line 263 rejects
             /\ Local(l, [L EXCEPT !.msg = "QuotaExceededError", !.pc = "c_err"])
             /\ UNCHANGED meta
    /\ UNCHANGED <<env, chunks, consolidated, file, dels>>

(* catch: await db.put(META_STORE, { ..., status: 'error', error, total }); onProgress; finally *)
ConsolidateFail(l) ==
    /\ lastCall' = <<>>
    /\ LoopStep(l, "c_err")
    /\ MetaStoreReady
    /\ LET L == loops[l]
       IN /\ meta' = [meta EXCEPT ![L.m] = MetaError(L.ctotal, L.msg)]
          /\ loops' = [loops EXCEPT ![l] = Finished(L, "error", L.cdown, L.ctotal)]
          /\ controllers' = FinallyDelete(L.m)
    /\ UNCHANGED <<env, chunks, consolidated, file, pendingPuts, dels, budget>>

(* Observers, computed from the persisted state as the code computes them *)

(* total > 0 ? (downloaded / total) * 100 : 0, its integer part *)
Percent(downloaded, total) == IF total > 0 THEN (downloaded * 100) \div total ELSE 0

MeasuredFromCounter(m) == Max(meta[m].downloaded, 0)

(* getStatus's measurement of the backend, lines 330-343 *)
Measured(m) ==
    IF isOpfsSupported
    THEN (IF rootOk /\ file[m] # NoFile THEN Len(file[m]) ELSE 0)
    ELSE ChunkBytes(chunks[m])

getStatus(m) ==
    IF meta[m] = NoMeta
    THEN [downloaded |-> 0, total |-> 0, percent |-> 0, status |-> "not_started", error |-> "none"]
    ELSE IF meta[m].status = "completed"
    THEN [downloaded |-> Max(meta[m].total, 0), total |-> Max(meta[m].total, 0), percent |-> 100,
          status |-> "completed", error |-> "none"]
    ELSE [downloaded |-> Measured(m), total |-> Max(meta[m].total, 0),
          percent |-> Percent(Measured(m), Max(meta[m].total, 0)),
          status |-> meta[m].status, error |-> meta[m].error]

(* getModelFromChunksAsStream: null when no chunk exists *)
getModelFromChunksAsStream(m) ==
    IF DOMAIN chunks[m] = {} THEN NoBlob ELSE ConcatChunks(chunks[m])

(* lines 371-377: the consolidated blob, else the blob rebuilt from the chunks *)
BlobFromIdb(m) ==
    IF consolidated[m] # NoBlob THEN consolidated[m] ELSE getModelFromChunksAsStream(m)

(* getModelAsBlob; NoBlob stands for null *)
getModelAsBlob(m) ==
    IF meta[m] = NoMeta \/ meta[m].status # "completed"
    THEN NoBlob
    ELSE IF isOpfsSupported /\ rootOk /\ file[m] # NoFile
    THEN (IF Len(file[m]) = meta[m].total THEN file[m] ELSE NoBlob)
    ELSE BlobFromIdb(m)

----------------------------------------------------------------------------
(* Specifications *)

Calls ==
    \/ \E m \in Models, key \in Keys : startDownload(m, key)
    \/ \E m \in Models, key \in Keys : resumeDownload(m, key)
    \/ \E m \in Models : pauseDownload(m)
    \/ \E m \in Models : deleteModel(m)

DeleteSteps ==
    \/ \E d \in DOMAIN dels : DelRemoveEntry(d)
    \/ \E d \in DOMAIN dels : DelMeta(d)
    \/ \E d \in DOMAIN dels : DelConsolidated(d)
    \/ \E d \in DOMAIN dels : DelChunks(d)

OpfsSteps ==
    \/ \E l \in LoopIds : OpfsOpen(l)
    \/ \E l \in LoopIds : OpfsReadMeta(l)
    \/ \E l \in LoopIds : OpfsResumeSize(l)
    \/ \E l \in LoopIds : OpfsHead(l)
    \/ \E l \in LoopIds : OpfsPutMeta(l)
    \/ \E l \in LoopIds : OpfsGet(l)
    \/ \E l \in LoopIds : OpfsCreateWritable(l)
    \/ \E l \in LoopIds : OpfsRead(l)
    \/ \E l \in LoopIds : OpfsWrite(l)
    \/ \E l \in LoopIds : OpfsClose(l)
    \/ \E l \in LoopIds : OpfsFinalCheck(l)
    \/ \E l \in LoopIds : OpfsComplete(l)
    \/ \E l \in LoopIds : CollectWritable(l)

IdbSteps ==
    \/ \E l \in LoopIds : IdbBegin(l)
    \/ \E l \in LoopIds : IdbPurgeStart(l)
    \/ \E l \in LoopIds : IdbCountChunks(l)
    \/ \E l \in LoopIds : IdbPurgeMeta(l)
    \/ \E l \in LoopIds : IdbPurgeConsolidated(l)
    \/ \E l \in LoopIds : IdbPurgeChunks(l)
    \/ \E l \in LoopIds : IdbHead(l)
    \/ \E l \in LoopIds : IdbPutMeta(l)
    \/ \E l \in LoopIds : IdbFetchChunk(l)
    \/ \E l \in LoopIds : IdbPutChunk(l)
    \/ \E l \in LoopIds : ConsolidateReadMeta(l)
    \/ \E l \in LoopIds : ConsolidateFirstChunk(l)
    \/ \E l \in LoopIds : ConsolidateBuild(l)
    \/ \E l \in LoopIds : ConsolidatePutBlob(l)
    \/ \E l \in LoopIds : ConsolidateDeleteChunks(l)
    \/ \E l \in LoopIds : ConsolidateComplete(l)
    \/ \E l \in LoopIds : ConsolidateFail(l)

Next ==
    \/ Calls
    \/ DeleteSteps
    \/ OpfsSteps
    \/ IdbSteps
    \/ CommitPut

Spec == Init /\ [][Next]_vars

----------------------------------------------------------------------------
(* Properties *)

Stored(m) ==
    meta[m] # NoMeta \/ DOMAIN chunks[m] # {} \/ consolidated[m] # NoBlob \/ file[m] # NoFile

(* the calls so far were start, resume and pause only *)
NoDeleteCalled == dels = <<>> /\ budget.deletes = MaxDeletes

(* C1: under any interleaving of start, resume, pause and delete for one    *)
(* artifactId, at most one transfer loop for that artifactId is running.    *)
C1_AtMostOneLoop == \A m \in Models : Cardinality(RunningFor(m)) <= 1

(* C2: a running transfer loop implies that the live-token set holds that   *)
(* loop's own token for its artifactId.                                     *)
C2_RunningLoopHoldsToken == \A l \in LoopIds : Running(l) => controllers[loops[l].m] = l

(* C3: two start calls for the same id issued back-to-back: the second     *)
(* call inserts nothing and changes nothing; the loop of the first call is  *)
(* the only one they created, still registered and still at its first step. *)
C3_SecondStartIsNoOp ==
    \A m \in Models :
        (/\ Len(lastCall) = 2
         /\ lastCall[1] = [op |-> "start", m |-> m, inserted |-> TRUE]
         /\ lastCall[2].op = "start" /\ lastCall[2].m = m) =>
            /\ ~lastCall[2].inserted
            /\ controllers[m] = Len(loops)
            /\ loops[Len(loops)] = NewLoop(m, FALSE, FirstPc(FALSE))

C3_Witness ==
    /\ Len(lastCall) = 2
    /\ lastCall[1].op = "start" /\ lastCall[1].inserted
    /\ lastCall[2].op = "start" /\ ~lastCall[2].inserted
    /\ Len(loops) = 1

(* C4: whenever the persisted status is Completed and getArtifact returns  *)
(* a blob, the blob's measured length equals the persisted totalBytes; no   *)
(* attempt writes Completed over an artifact of another size.               *)
C4_CompletedSizeMatches ==
    \A m \in Models :
        (NoDeleteCalled /\ meta[m].status = "completed" /\ getModelAsBlob(m) # NoBlob) =>
            Len(getModelAsBlob(m)) = meta[m].total

(* C7: a loop that was running when pause was called ends at its next      *)
(* network checkpoint (a fetch or a read of the body that is not yet        *)
(* complete), and it ends Paused.                                           *)
C7_PausedLoopStopsAtCheckpoint ==
    [][\A l \in LoopIds :
          (/\ loops[l].paused /\ NoDeleteCalled
           /\ \/ OpfsHead(l) \/ OpfsGet(l) \/ IdbHead(l) \/ IdbFetchChunk(l)
              \/ (OpfsRead(l) /\ loops[l].downloaded < loops[l].total)) =>
              (loops'[l].pc = "done" /\ loops'[l].result = "paused")]_vars

(* C10: once a transfer attempt has ended in a failure or a cancellation    *)
(* and its call has returned, the persisted record is Error or Paused.      *)
C10_RecordWrittenBeforeReturn ==
    \A m \in Models :
        (/\ Len(loops) = 1 /\ loops[1].m = m /\ loops[1].pc = "done"
         /\ loops[1].result \in {"paused", "error"} /\ loops[1].msg = "none"
         /\ NoDeleteCalled /\ (isOpfsSupported => rootOk)) =>
            meta[m].status \in {"paused", "error"}

C19_ResumeWithoutRecordIsStart ==
    [][\A l \in LoopIds :
          (/\ loops[l].call = "resume" /\ loops[l].isResume /\ meta[loops[l].m] = NoMeta
           /\ controllers[loops[l].m] = l /\ ~loops[l].sig
           /\ OpfsReadMeta(l) \/ IdbBegin(l)) =>
              /\ loops'[l].pc = (IF isOpfsSupported THEN "o_head" ELSE FirstPc(FALSE))
              /\ loops'[l].downloaded = 0 /\ loops'[l].total = 0 /\ loops'[l].chunkIndex = 0
              /\ ~loops'[l].sig
              /\ controllers'[loops[l].m] = l]_vars

(* C14: getArtifact returns a blob only if the persisted status is          *)
(* Completed and the measured size of the returned bytes equals totalBytes. *)
C14_ArtifactOnlyIfMeasuredComplete ==
    \A m \in Models :
        getModelAsBlob(m) # NoBlob =>
            (meta[m].status = "completed" /\ Len(getModelAsBlob(m)) = meta[m].total)

----------------------------------------------------------------------------
(* The caller deletes last: once deleteModel has been called, the caller    *)
(* calls nothing but deleteModel.                                           *)

DeleteAttempts == 2
DeleteCalls == 2

InitDelete ==
    InitWith(BOOLEAN, Totals,
             [starts |-> DeleteAttempts, deletes |-> DeleteCalls, pauses |-> 1,
              restarts |-> 0, faults |-> 0])

DeleteCalled == budget.deletes < DeleteCalls

NextDelete ==
    \/ ~DeleteCalled /\ \E m \in Models, key \in Keys : startDownload(m, key)
    \/ ~DeleteCalled /\ \E m \in Models, key \in Keys : resumeDownload(m, key)
    \/ ~DeleteCalled /\ \E m \in Models : pauseDownload(m)
    \/ \E m \in Models : deleteModel(m)
    \/ DeleteSteps
    \/ OpfsSteps
    \/ IdbSteps
    \/ CommitPut

SpecDelete == InitDelete /\ [][NextDelete]_vars

Settled(m) == RunningFor(m) = {} /\ dels = <<>> /\ pendingPuts = <<>>

(* C8: delete called while a transfer is writing the file: once delete has  *)
(* returned and the loop has terminated, nothing is stored for the id and   *)
(* getStatus reports NotStarted.                                            *)
C8_NothingAfterDelete ==
    \A m \in Models :
        (/\ DeleteCalled /\ Settled(m)
         /\ \E l \in LoopIds : loops[l].m = m /\ loops[l].deleted /\ loops[l].w = "abandoned") =>
            (~Stored(m) /\ getStatus(m).status = "not_started")

(* C9: the second of two consecutive delete calls, both made while no       *)
(* transfer was active: after its removeEntry step no file exists for the   *)
(* id.                                                                      *)
C9_DeleteIdempotent ==
    [][\A d \in DOMAIN dels :
          (/\ budget.deletes = 0 /\ Len(dels) = 1 /\ rootOk /\ dels[d].idle
           /\ \A l \in LoopIds : ~loops[l].deleted
           /\ DelRemoveEntry(d)) =>
              file'[dels[d].m] = NoFile]_vars

(* the attempt is inside the try block of _consolidateModel or in its catch *)
InConsolidation(l) ==
    loops[l].pc \in {"c_first", "c_build", "c_putblob", "c_delchunks", "c_putmeta", "c_err"}

(* C30: during consolidation the bytes of the artifact are at every step    *)
(* present in full in the chunk store or in the consolidated store; the     *)
(* chunks are deleted only when the consolidated store holds their bytes,   *)
(* and Completed is written only when the blob is stored and the chunks are *)
(* deleted.                                                                 *)
C30_BytesAlwaysInOneStore ==
    /\ [](\A l \in LoopIds :
             InConsolidation(l) =>
                 \/ ConcatChunks(chunks[loops[l].m]) = ServerBytes(0, loops[l].total)
                 \/ consolidated[loops[l].m] = ServerBytes(0, loops[l].total))
    /\ [][\A l \in LoopIds :
             /\ (ConsolidateDeleteChunks(l) /\ loops'[l].pc = "c_putmeta") =>
                    consolidated[loops[l].m] = ConcatChunks(chunks[loops[l].m])
             /\ (ConsolidateComplete(l) /\ loops'[l].pc = "done") =>
                    /\ consolidated[loops[l].m] = ServerBytes(0, loops[l].total)
                    /\ chunks[loops[l].m] = NoChunks]_vars

TerminalEvents == {"completed", "paused", "error"}

(* C32: every attempt that registered a controller and has ended has        *)
(* emitted a terminal progress event (Completed, Paused or Error) as its    *)
(* last event, and after a terminal event an attempt emits nothing more.    *)
C32_OneTerminalEventLast ==
    /\ [](\A l \in LoopIds :
             (loops[l].pc = "done" /\ loops[l].msg = "none") =>
                 (loops[l].result \in TerminalEvents /\ loops[l].lastEv = loops[l].result))
    /\ [][\A l \in LoopIds :
             (loops[l].lastEv \in TerminalEvents /\ l \in DOMAIN loops') =>
                 (/\ loops'[l].lastEv = loops[l].lastEv /\ loops'[l].evDown = loops[l].evDown
                  /\ loops'[l].evTotal = loops[l].evTotal /\ loops'[l].pc = "done")]_vars

----------------------------------------------------------------------------
(* The caller waits for a transfer to end before it starts or resumes the   *)
(* artifact again; it may pause at any time and the page may be reloaded.   *)

SeqAttempts == 3
SeqPauses == 1

InitSeq ==
    InitWith(BOOLEAN, Totals,
             [starts |-> SeqAttempts, deletes |-> 0, pauses |-> SeqPauses,
              restarts |-> MaxRestarts, faults |-> MaxFaults])

Quiescent(m) == RunningFor(m) = {}

NextSeq ==
    \/ \E m \in Models, key \in Keys : Quiescent(m) /\ startDownload(m, key)
    \/ \E m \in Models, key \in Keys : Quiescent(m) /\ resumeDownload(m, key)
    \/ \E m \in Models : pauseDownload(m)
    \/ OpfsSteps
    \/ IdbSteps
    \/ CommitPut
    \/ Restart

SpecSeq == InitSeq /\ [][NextSeq]_vars

(* C5: a transfer that was interrupted after k bytes and resumed leaves,    *)
(* once Completed, the bytes of the url: same length, same byte at every    *)
(* offset, as one uninterrupted start produces.                             *)
C5_ResumeByteIdentical ==
    \A m \in Models :
        meta[m].status = "completed" => getModelAsBlob(m) = ServerBytes(0, serverTotal)

C5_Witness ==
    \E m \in Models, k \in LoopIds, l \in LoopIds :
        /\ k < l /\ loops[k].m = m /\ loops[k].paused /\ loops[k].result = "paused"
        /\ loops[l].m = m /\ loops[l].call = "resume" /\ loops[l].result = "completed"
        /\ loops[l].startedAt > 0 /\ loops[l].startedAt < serverTotal
        /\ meta[m].status = "completed"
        /\ getModelAsBlob(m) = ServerBytes(0, serverTotal)

(* C13: the caller paused the last attempt and it ended cancelled: once its  *)
(* write has committed, the record is Paused with no error message and with *)
(* the total and downloaded values of the Paused progress event.            *)
C13_PausedRecordMatchesEvent ==
    \A m \in Models :
        (/\ loops # <<>> /\ loops[Len(loops)].m = m /\ Quiescent(m)
         /\ loops[Len(loops)].paused /\ loops[Len(loops)].result = "paused"
         /\ pendingPuts = <<>>) =>
            /\ meta[m] = MetaPaused(loops[Len(loops)].evTotal, loops[Len(loops)].evDown)
            /\ getStatus(m).status = "paused" /\ getStatus(m).error = "none"

C13_Witness ==
    \E m \in Models, k \in LoopIds :
        /\ k < Len(loops) /\ loops[k].m = m /\ loops[k].result = "error"
        /\ loops[Len(loops)].m = m /\ Quiescent(m) /\ pendingPuts = <<>>
        /\ loops[Len(loops)].paused /\ loops[Len(loops)].result = "paused"
        /\ loops[Len(loops)].evTotal = serverTotal /\ loops[Len(loops)].evDown > 0
        /\ meta[m] = MetaPaused(serverTotal, loops[Len(loops)].evDown)

(* C16: a record that holds a non-zero totalBytes keeps that totalBytes     *)
(* through every step that leaves a record for the id: it is never          *)
(* overwritten with 0 or with another value.                                *)
C16_TotalNeverOverwritten ==
    [][\A m \in Models :
          (meta[m].total > 0 /\ meta'[m] # NoMeta) => meta'[m].total = meta[m].total]_vars

(* C18: getStatus reports NotStarted with zeros when no record exists; for  *)
(* a Completed record downloaded = total and percent = 100 whatever the     *)
(* backend holds; for any other record downloaded is the size of the file   *)
(* (file backend) or the length of the stored chunks together (chunk        *)
(* backend), whatever counter the record stores.                            *)
C18_StatusFromBackend ==
    \A m \in Models :
        /\ meta[m] = NoMeta =>
              getStatus(m) = [downloaded |-> 0, total |-> 0, percent |-> 0,
                              status |-> "not_started", error |-> "none"]
        /\ (meta[m] # NoMeta /\ meta[m].status = "completed") =>
              /\ getStatus(m).status = "completed" /\ getStatus(m).percent = 100
              /\ getStatus(m).downloaded = meta[m].total
              /\ getStatus(m).total = meta[m].total
        /\ (meta[m] # NoMeta /\ meta[m].status # "completed") =>
              /\ getStatus(m).status = meta[m].status
              /\ getStatus(m).downloaded =
                    IF isOpfsSupported
                    THEN (IF file[m] = NoFile THEN 0 ELSE Len(file[m]))
                    ELSE Len(ConcatChunks(chunks[m]))

C18_Witness ==
    \E m \in Models :
        /\ meta[m].status = "paused" /\ meta[m].downloaded > 0
        /\ getStatus(m).status = "paused"
        /\ getStatus(m).downloaded # meta[m].downloaded

(* C20: within one attempt the downloadedBytes of successive progress       *)
(* events never decreases, and the byte count measured on the backend       *)
(* decreases only in the purge of a fresh start (the caller never deletes   *)
(* here), never in another step of a resume, a pause or a failure.          *)
C20_CountNeverDecreases ==
    [][/\ \A l \in LoopIds :
             (l \in DOMAIN loops' /\ loops[l].evDown >= 0) => loops'[l].evDown >= loops[l].evDown
       /\ \A m \in Models :
             Measured(m)' < Measured(m) =>
                 \E l \in LoopIds : loops[l].m = m /\ IdbPurgeChunks(l)]_vars

(* C24: when consolidation fails at any of its steps, the status becomes    *)
(* Error and all source chunks of the artifact, the bytes the attempt has   *)
(* downloaded, are still in the chunk store.                                *)
C24_FailedConsolidationKeepsChunks ==
    [][\A l \in LoopIds :
          ConsolidateFail(l) =>
              /\ meta'[loops[l].m].status = "error"
              /\ ConcatChunks(chunks'[loops[l].m]) = ServerBytes(0, loops[l].downloaded)]_vars

(* the byte count of the backend, measured from what is stored *)
StoredSize(m) ==
    IF isOpfsSupported
    THEN (IF file[m] = NoFile THEN 0 ELSE Len(file[m]))
    ELSE Len(ConcatChunks(chunks[m]))

(* the attempt is a resume that has found a record with a known totalBytes  *)
(* and a backend holding fewer bytes than that                              *)
ResumesKnown(l) ==
    /\ loops[l].isResume /\ meta[loops[l].m].total > 0
    /\ StoredSize(loops[l].m) < meta[loops[l].m].total

(* C26: a resume with a known totalBytes and s measured bytes, 0 <= s <     *)
(* total, issues no HEAD request; its counters are s (and the number of     *)
(* stored chunks) when it records Downloading, its first GET starts at s,   *)
(* and no stored byte below s is rewritten.                                 *)
C26_ResumeRangeStartsAtMeasured ==
    [][\A l \in LoopIds :
          LET L == loops[l]
              m == L.m
          IN /\ (ResumesKnown(l) /\ OpfsReadMeta(l)) => loops'[l].pc = "o_size"
             /\ (ResumesKnown(l) /\ OpfsResumeSize(l)) =>
                    /\ loops'[l].pc = "o_putmeta" /\ loops'[l].total = meta[m].total
                    /\ loops'[l].downloaded = StoredSize(m)
             /\ (ResumesKnown(l) /\ IdbBegin(l)) => loops'[l].pc = "i_chunks"
             /\ (ResumesKnown(l) /\ IdbCountChunks(l)) =>
                    /\ loops'[l].pc = "i_putmeta" /\ loops'[l].total = meta[m].total
                    /\ loops'[l].downloaded = StoredSize(m)
                    /\ loops'[l].chunkIndex = Cardinality(DOMAIN chunks[m])
             /\ (ResumesKnown(l) /\ (OpfsPutMeta(l) \/ IdbPutMeta(l))) =>
                    /\ L.downloaded = StoredSize(m)
                    /\ loops'[l].downloaded = L.downloaded
                    /\ loops'[l].pc = (IF isOpfsSupported THEN "o_get" ELSE "i_fetch")
             /\ ((OpfsHead(l) \/ IdbHead(l)) /\ L.call = "resume") =>
                    (meta[m] = NoMeta \/ meta[m].total = 0)
             /\ ((OpfsGet(l) \/ IdbFetchChunk(l)) /\ L.isResume /\ L.startedAt > 0
                 /\ L.downloaded = L.startedAt) =>
                    L.downloaded = StoredSize(m)
             /\ (L.isResume /\ OpfsWrite(l) /\ loops'[l].pc = "o_read") =>
                    \A i \in 1..L.startedAt : loops'[l].swap[i] = L.swap[i]
             /\ (L.isResume /\ OpfsClose(l)) =>
                    \A i \in 1..L.startedAt : file'[m][i] = file[m][i]
             /\ (L.isResume /\ IdbPutChunk(l)) =>
                    \A i \in DOMAIN chunks[m] : chunks'[m][i] = chunks[m][i]]_vars

C26_Witness ==
    \E l \in LoopIds :
        /\ loops[l].call = "resume" /\ loops[l].isResume
        /\ loops[l].startedAt > 0 /\ loops[l].startedAt < loops[l].total
        /\ loops[l].pc \in {"o_createw", "i_putchunk"}
        /\ loops[l].downloaded = loops[l].startedAt
        /\ StoredSize(loops[l].m) = loops[l].startedAt

(* C27: on the file backend, once the last attempt has ended Paused or      *)
(* Error with downloadedBytes = k in its last progress event, the measured  *)
(* size of the file is k and getStatus reports k.                           *)
C27_ReportedBytesAreInFile ==
    \A m \in Models :
        (/\ isOpfsSupported /\ rootOk /\ loops # <<>> /\ loops[Len(loops)].m = m
         /\ loops[Len(loops)].pc = "done" /\ loops[Len(loops)].result \in {"paused", "error"}
         /\ pendingPuts = <<>>) =>
            /\ StoredSize(m) = loops[Len(loops)].evDown
            /\ getStatus(m).downloaded = loops[Len(loops)].evDown

(* the attempt sends a request to the server in this step *)
NetworkRequest(l) == OpfsHead(l) \/ OpfsGet(l) \/ IdbHead(l) \/ IdbFetchChunk(l)

(* C31: while the persisted status is Completed, no step of a resume        *)
(* attempt for the id moves the status away from Completed, changes what    *)
(* getArtifact returns, or sends a request to the server.                   *)
C31_ResumeOnCompletedIsNoOp ==
    [][\A l \in LoopIds :
          LET m == loops[l].m
          IN (/\ loops[l].call = "resume" /\ Running(l) /\ meta[m].status = "completed"
              /\ l \in DOMAIN loops') =>
                 /\ meta'[m].status = "completed"
                 /\ getModelAsBlob(m)' = getModelAsBlob(m)
                 /\ ~NetworkRequest(l)]_vars

(* C34: a pauseDownload call for an id without a registered controller      *)
(* leaves the records, the chunks, the blobs, the files, the controllers    *)
(* map and the pending writes unchanged, cancels no attempt and emits no    *)
(* progress event: every attempt keeps its position, its signal and its     *)
(* last event.                                                              *)
C34_PauseWithoutTokenChangesNothing ==
    [][\A m \in Models :
          (controllers[m] = 0 /\ pauseDownload(m)) =>
              /\ UNCHANGED <<meta, chunks, consolidated, file, controllers, pendingPuts, dels>>
              /\ Len(loops') = Len(loops)
              /\ \A l \in LoopIds : loops'[l] = [loops[l] EXCEPT !.paused = loops'[l].paused]]_vars

C34_Witness ==
    \E m \in Models :
        /\ budget.pauses < SeqPauses /\ budget.restarts = MaxRestarts
        /\ loops # <<>> /\ \A l \in LoopIds : loops[l].m = m /\ ~loops[l].paused /\ loops[l].pc = "done"
        /\ controllers[m] = 0 /\ meta[m].status = "completed"
        /\ getModelAsBlob(m) = ServerBytes(0, serverTotal)

----------------------------------------------------------------------------
(* A transfer is cut by a page reload, and afterwards the caller only       *)
(* resumes: no pause and no failing request after the reload.               *)

ReloadAttempts == 3

InitReload ==
    InitWith(BOOLEAN, Totals,
             [starts |-> ReloadAttempts, deletes |-> 0, pauses |-> 1,
              restarts |-> MaxRestarts, faults |-> MaxFaults])

Reloaded == budget.restarts < MaxRestarts

(* Restart, followed by a session without pauses and without failures *)
Reload ==
    /\ lastCall' = <<>>
    /\ budget.restarts > 0
    /\ controllers' = [m \in Models |-> 0]
    /\ loops' = <<>>
    /\ dels' = <<>>
    /\ pendingPuts' = <<>>
    /\ budget' = [budget EXCEPT !.restarts = @ - 1, !.pauses = 0, !.faults = 0]
    /\ UNCHANGED <<env, idb, file>>

NextReload ==
    \/ \E m \in Models, key \in Keys : ~Reloaded /\ Quiescent(m) /\ startDownload(m, key)
    \/ \E m \in Models, key \in Keys : Quiescent(m) /\ resumeDownload(m, key)
    \/ \E m \in Models : pauseDownload(m)
    \/ OpfsSteps
    \/ IdbSteps
    \/ CommitPut
    \/ Reload

SpecReload == InitReload /\ [][NextReload]_vars

(* the first resume after the reload reaches the point where it records     *)
(* 'downloading' and starts to fetch                                        *)
ResumeBegins(m) ==
    /\ Reloaded /\ Len(loops) = 1 /\ loops[1].m = m
    /\ OpfsPutMeta(1) \/ IdbPutMeta(1)

(* the first resume after the reload ends *)
ResumeEnds(m) ==
    /\ Reloaded /\ Len(loops) = 1 /\ loops[1].m = m /\ (isOpfsSupported => rootOk)
    /\ loops[1].pc # "done" /\ Len(loops') = 1 /\ loops'[1].pc = "done"

ResumeAccepted(m) ==
    (Reloaded /\ loops = <<>> /\ \E key \in Keys : resumeDownload(m, key)) =>
        (Len(loops') = 1 /\ controllers'[m] = 1)

ResumeYieldsArtifact(m) ==
    ResumeEnds(m) =>
        /\ loops'[1].result = "completed" /\ meta'[m].status = "completed"
        /\ getModelAsBlob(m)' = ServerBytes(0, serverTotal)

(* C15 as stated: after a reload at any point of a transfer, resume is      *)
(* accepted, continues from the byte count measured on the backend, and     *)
(* ends Completed with the bytes of the url.                                *)
C15_ResumeContinuesFromMeasured ==
    [][\A m \in Models :
          /\ ResumeAccepted(m)
          /\ ResumeBegins(m) => loops[1].downloaded = Measured(m)
          /\ ResumeYieldsArtifact(m)]_vars

(* C15 amended: as stated, except that the resume continues from 0 when the *)
(* persisted totalBytes is missing or 0, and on the file backend when the   *)
(* measured size is not below the persisted totalBytes.                     *)
C15_ResumeAfterReload ==
    [][\A m \in Models :
          /\ ResumeAccepted(m)
          /\ ResumeBegins(m) =>
                loops[1].downloaded =
                    IF meta[m].total > 0 /\ ~(isOpfsSupported /\ Measured(m) >= meta[m].total)
                    THEN Measured(m)
                    ELSE 0
          /\ ResumeYieldsArtifact(m)]_vars

C15_Witness ==
    \E m \in Models :
        /\ Reloaded /\ Len(loops) = 1 /\ loops[1].m = m /\ loops[1].call = "resume"
        /\ loops[1].startedAt > 0 /\ loops[1].startedAt < serverTotal
        /\ loops[1].result = "completed" /\ meta[m].status = "completed"
        /\ getModelAsBlob(m) = ServerBytes(0, serverTotal)

----------------------------------------------------------------------------
(* The chunk backend with a url of exactly three chunk sizes; the caller    *)
(* starts and resumes, and never pauses or deletes.                         *)

ChunkAttempts == 2
ChunkTotal == 3 * CHUNK_SIZE

InitChunk ==
    InitWith({FALSE}, {ChunkTotal},
             [starts |-> ChunkAttempts, deletes |-> 0, pauses |-> 0, restarts |-> 0, faults |-> 0])

NextChunk ==
    \/ \E m \in Models, key \in Keys : startDownload(m, key)
    \/ \E m \in Models, key \in Keys : resumeDownload(m, key)
    \/ IdbSteps
    \/ CommitPut

SpecChunk == InitChunk /\ [][NextChunk]_vars

(* C6: one start call and nothing else by the caller: once the attempt has  *)
(* ended, getStatus reports downloaded = total, percent = 100, Completed.   *)
C6_StartCompletes ==
    \A m \in Models :
        (/\ Len(loops) = 1 /\ loops[1].m = m /\ loops[1].call = "start"
         /\ budget.starts = ChunkAttempts - 1
         /\ loops[1].pc = "done" /\ pendingPuts = <<>>) =>
            getStatus(m) = [downloaded |-> ChunkTotal, total |-> ChunkTotal, percent |-> 100,
                            status |-> "completed", error |-> "none"]

(* C25: the purge at the beginning of a fresh start on the chunk backend    *)
(* does not cancel the transfer that performs it: the step that begins the  *)
(* purge leaves the transfer's own live token registered and not cancelled, *)
(* and the HEAD request that follows does not end the attempt cancelled.    *)
C25_PurgeKeepsOwnToken ==
    [][\A l \in LoopIds :
          /\ (/\ loops[l].call = "start" /\ controllers[loops[l].m] = l /\ ~loops[l].sig
              /\ IdbPurgeStart(l)) =>
                 (controllers'[loops[l].m] = l /\ ~loops'[l].sig)
          /\ (loops[l].call = "start" /\ ~loops[l].paused /\ IdbHead(l)) =>
                 loops'[l].result # "paused"]_vars

(* C21: during a transfer attempt every stored buffer or chunk is followed  *)
(* by a progress event carrying the new byte count, and every change of the *)
(* persisted status to Downloading, Paused, Error or Completed comes with a *)
(* progress event of an attempt for that id carrying that status.           *)
C21_EveryTransitionHasEvent ==
    [][/\ \A l \in LoopIds :
             ((OpfsWrite(l) \/ IdbPutChunk(l)) /\ loops'[l].downloaded > loops[l].downloaded) =>
                 (loops'[l].lastEv = "downloading" /\ loops'[l].evDown = loops'[l].downloaded)
       /\ \A m \in Models :
             (/\ meta'[m].status # meta[m].status
              /\ meta'[m].status \in {"downloading", "paused", "error", "completed"}) =>
                 \E l \in DOMAIN loops' : loops'[l].m = m /\ loops'[l].lastEv = meta'[m].status]_vars

(* the attempt is between the reading of its counters and consolidation *)
InChunkLoop(l) == loops[l].pc \in {"i_head", "i_putmeta", "i_fetch", "i_putchunk", "c_meta"}

(* C23: at every point of a chunk-backend transfer the lengths of the       *)
(* stored chunks add up to the loop's downloadedBytes, the stored indices   *)
(* are exactly 0..chunkIndex-1, and every chunk but the last has the fixed  *)
(* chunk size.                                                              *)
C23_ChunksMatchCounters ==
    \A l \in LoopIds :
        InChunkLoop(l) =>
            LET c == chunks[loops[l].m]
            IN /\ ChunkBytes(c) = loops[l].downloaded
               /\ DOMAIN c = 0..(loops[l].chunkIndex - 1)
               /\ \A i \in DOMAIN c : i < loops[l].chunkIndex - 1 => Len(c[i]) = CHUNK_SIZE

----------------------------------------------------------------------------
(* The caller may pass an empty hfApiKey; it never deletes.                 *)

AuthAttempts == 2
AuthKeys == {"", "hf_key"}

InitAuth ==
    InitWith(BOOLEAN, Totals,
             [starts |-> AuthAttempts, deletes |-> 0, pauses |-> 1, restarts |-> 0,
              faults |-> 1])

NextAuth ==
    \/ \E m \in Models, key \in AuthKeys : startDownload(m, key)
    \/ \E m \in Models, key \in AuthKeys : resumeDownload(m, key)
    \/ \E m \in Models : pauseDownload(m)
    \/ OpfsSteps
    \/ IdbSteps
    \/ CommitPut

SpecAuth == InitAuth /\ [][NextAuth]_vars

(* C11: one transfer attempt and nothing else: once it has ended in a       *)
(* failure and every write it issued has committed, the persisted record    *)
(* has status Error and a non-empty message, and getStatus reports Error    *)
(* with that message; once it has ended cancelled, the record is Paused.    *)
C11_FailureLeavesErrorRecord ==
    \A m \in Models :
        (/\ Len(loops) = 1 /\ loops[1].m = m /\ loops[1].pc = "done"
         /\ budget.starts = AuthAttempts - 1 /\ pendingPuts = <<>>) =>
            /\ loops[1].result = "error" =>
                  /\ meta[m].status = "error" /\ meta[m].error # "none"
                  /\ getStatus(m).status = "error" /\ getStatus(m).error = meta[m].error
            /\ loops[1].result = "paused" => meta[m].status = "paused"

(* C12 as stated: every start or resume call with an empty authToken adds   *)
(* one ended attempt whose only event is Error with a message, and changes  *)
(* nothing else.                                                            *)
C12_EmptyKeyAlwaysReportsError ==
    [][\A m \in Models :
          (startDownload(m, "") \/ resumeDownload(m, "")) =>
              /\ loops' = Append(loops, loops'[Len(loops')])
              /\ loops'[Len(loops')].pc = "done" /\ loops'[Len(loops')].lastEv = "error"
              /\ loops'[Len(loops')].msg # "none"]_vars

(* C12 amended: a start or resume call with an empty authToken made while   *)
(* no live token is registered for the id adds one ended attempt whose only *)
(* event is Error with a message; with a live token registered the call     *)
(* adds nothing. In both cases no live token is inserted, no attempt is     *)
(* left running by the call, and no stored data is written or removed.      *)
C12_EmptyKeyStartsNothing ==
    [][\A m \in Models :
          (startDownload(m, "") \/ resumeDownload(m, "")) =>
              /\ IF HasController(m)
                 THEN loops' = loops
                 ELSE /\ loops' = Append(loops, loops'[Len(loops')])
                      /\ loops'[Len(loops')].pc = "done"
                      /\ loops'[Len(loops')].lastEv = "error"
                      /\ loops'[Len(loops')].result = "error"
                      /\ loops'[Len(loops')].msg # "none"
              /\ UNCHANGED <<controllers, meta, chunks, consolidated, file, pendingPuts, dels>>]_vars

C12_Witness ==
    \E m \in Models, l \in LoopIds :
        /\ loops[l].m = m /\ loops[l].pc = "done" /\ loops[l].lastEv = "error"
        /\ loops[l].msg = "Hugging Face API Key is required."
        /\ controllers[m] = 0 /\ ~Stored(m) /\ pendingPuts = <<>>
        /\ budget.starts = AuthAttempts - 1

----------------------------------------------------------------------------
(* Two artifacts in one manager: the caller starts, resumes, pauses and     *)
(* deletes either of them, one attempt at a time for each artifact; no      *)
(* request fails for a reason outside the program.                          *)

IsoAttempts == 2
IsoDeletes == 1
IsoNames == {"m1", "m2"}

InitIso ==
    InitFor(IsoNames, BOOLEAN, Totals,
            [starts |-> IsoAttempts, deletes |-> IsoDeletes, pauses |-> 1, restarts |-> 0,
             faults |-> 0])

NextIso ==
    \/ \E m \in Models, key \in Keys : Quiescent(m) /\ startDownload(m, key)
    \/ \E m \in Models, key \in Keys : Quiescent(m) /\ resumeDownload(m, key)
    \/ \E m \in Models : pauseDownload(m)
    \/ \E m \in Models : deleteModel(m)
    \/ DeleteSteps
    \/ OpfsSteps
    \/ IdbSteps
    \/ CommitPut

SpecIso == InitIso /\ [][NextIso]_vars

(* a step of the attempt l, whichever it is *)
StepOfLoop(l) ==
    \/ OpfsOpen(l) \/ OpfsReadMeta(l) \/ OpfsResumeSize(l) \/ OpfsHead(l) \/ OpfsPutMeta(l)
    \/ OpfsGet(l) \/ OpfsCreateWritable(l) \/ OpfsRead(l) \/ OpfsWrite(l) \/ OpfsClose(l)
    \/ OpfsFinalCheck(l) \/ OpfsComplete(l) \/ CollectWritable(l)
    \/ IdbBegin(l) \/ IdbPurgeStart(l) \/ IdbCountChunks(l) \/ IdbPurgeMeta(l)
    \/ IdbPurgeConsolidated(l) \/ IdbPurgeChunks(l) \/ IdbHead(l) \/ IdbPutMeta(l)
    \/ IdbFetchChunk(l) \/ IdbPutChunk(l)
    \/ ConsolidateReadMeta(l) \/ ConsolidateFirstChunk(l) \/ ConsolidateBuild(l)
    \/ ConsolidatePutBlob(l) \/ ConsolidateDeleteChunks(l) \/ ConsolidateComplete(l)
    \/ ConsolidateFail(l)

(* a step of the delete call d *)
StepOfDelete(d) == DelRemoveEntry(d) \/ DelMeta(d) \/ DelConsolidated(d) \/ DelChunks(d)

(* the step is an operation on artifact a: a call for a, a step or a failure *)
(* of an attempt or of a delete for a, or the commit of a record of a       *)
ActsOn(a) ==
    \/ \E key \in Keys : startDownload(a, key) \/ resumeDownload(a, key)
    \/ pauseDownload(a)
    \/ deleteModel(a)
    \/ \E l \in LoopIds : loops[l].m = a /\ StepOfLoop(l)
    \/ \E d \in DOMAIN dels : dels[d].m = a /\ StepOfDelete(d)
    \/ pendingPuts # <<>> /\ Head(pendingPuts).m = a /\ CommitPut

(* the step changes something stored or registered for artifact b *)
Touched(b) ==
    \/ meta'[b] # meta[b] \/ chunks'[b] # chunks[b] \/ consolidated'[b] # consolidated[b]
    \/ file'[b] # file[b] \/ controllers'[b] # controllers[b]

(* C22: an operation or a failure on artifact a leaves the metadata, the    *)
(* chunks, the consolidated blob, the file and the live token of every      *)
(* other artifact b unchanged: no step that changes one of them for b is an *)
(* operation on another artifact.                                           *)
C22_OtherArtifactsUntouched ==
    [][\A a \in Models, b \in Models : (a # b /\ Touched(b)) => ~ActsOn(a)]_vars

C22_Witness ==
    \E a \in Models, b \in Models, k \in LoopIds, l \in LoopIds :
        /\ a # b /\ loops[k].m = a /\ loops[l].m = b
        /\ dels = <<>> /\ budget.deletes < IsoDeletes /\ loops[k].deleted /\ ~Stored(a)
        /\ Running(l) /\ controllers[b] = l /\ meta[b].status = "downloading"
        /\ loops[l].downloaded > 0

----------------------------------------------------------------------------
(* The file backend with a url whose content is replaced by a shorter one   *)
(* between two attempts; the caller waits for each attempt to end.          *)

StaleAttempts == 3
RepublishedTotal == 2

InitStale ==
    InitFor({"m1"}, {TRUE}, Totals,
            [starts |-> StaleAttempts, deletes |-> 0, pauses |-> 0, restarts |-> 0,
             faults |-> MaxFaults])

(* the server replaces the file behind the url: another Content-Length *)
Republish ==
    /\ serverTotal \in Totals
    /\ \A m \in Models : Quiescent(m)
    /\ serverTotal' = RepublishedTotal
    /\ lastCall' = <<>>
    /\ UNCHANGED <<isOpfsSupported, rootOk, idb, file, controllers, pendingPuts, loops, dels,
                   budget>>

NextStale ==
    \/ \E m \in Models, key \in Keys : Quiescent(m) /\ startDownload(m, key)
    \/ \E m \in Models, key \in Keys : Quiescent(m) /\ resumeDownload(m, key)
    \/ OpfsSteps
    \/ CommitPut
    \/ Republish

SpecStale == InitStale /\ [][NextStale]_vars

(* C29: a fresh start on the file backend that has read the response       *)
(* stream to its end leaves, when it closes the file, exactly the served    *)
(* stream in it, whatever the file held before, and ends Completed.         *)
C29_FreshStartReplacesFile ==
    [][\A l \in LoopIds :
          LET L == loops[l]
          IN /\ (~L.isResume /\ L.total = serverTotal /\ L.downloaded = serverTotal
                 /\ OpfsClose(l)) =>
                    file'[L.m] = ServerBytes(0, serverTotal)
             /\ (~L.isResume /\ L.total = serverTotal /\ L.downloaded = serverTotal
                 /\ L.w = "closed" /\ OpfsFinalCheck(l)) =>
                    loops'[l].pc = "o_done"]_vars

(* C28: a resume on the file backend that finds a file of any size >= the   *)
(* persisted totalBytes restarts from offset 0 and, the server serving      *)
(* exactly totalBytes bytes, leaves a file of exactly these bytes and ends  *)
(* Completed.                                                               *)
C28_RestartedResumeCompletes ==
    [][\A l \in LoopIds :
          LET L == loops[l]
              m == L.m
          IN /\ (L.isResume /\ meta[m].total > 0 /\ file[m] # NoFile
                 /\ Len(file[m]) >= meta[m].total /\ OpfsResumeSize(l)) =>
                    (loops'[l].downloaded = 0 /\ loops'[l].restart /\ loops'[l].pc = "o_putmeta")
             /\ (L.isResume /\ L.restart /\ L.total = serverTotal
                 /\ L.downloaded = L.total /\ OpfsClose(l)) =>
                    file'[m] = ServerBytes(0, L.total)
             /\ (L.isResume /\ L.restart /\ L.total = serverTotal
                 /\ L.downloaded = L.total /\ L.w = "closed" /\ OpfsFinalCheck(l)) =>
                    loops'[l].pc = "o_done"]_vars

----------------------------------------------------------------------------
(* The chunk backend with a url whose content is replaced by an empty file  *)
(* at some point; the caller waits for each attempt to end and may pause.   *)

EmptyAttempts == 2

InitEmpty ==
    InitFor({"m1"}, {FALSE}, Totals,
            [starts |-> EmptyAttempts, deletes |-> 0, pauses |-> 1, restarts |-> 0, faults |-> 0])

(* the server replaces the file behind the url by an empty one *)
Unpublish ==
    /\ serverTotal \in Totals
    /\ serverTotal' = 0
    /\ lastCall' = <<>>
    /\ UNCHANGED <<isOpfsSupported, rootOk, idb, file, controllers, pendingPuts, loops, dels,
                   budget>>

NextEmpty ==
    \/ \E m \in Models, key \in Keys : Quiescent(m) /\ startDownload(m, key)
    \/ \E m \in Models, key \in Keys : Quiescent(m) /\ resumeDownload(m, key)
    \/ \E m \in Models : pauseDownload(m)
    \/ IdbSteps
    \/ CommitPut
    \/ Unpublish

SpecEmpty == InitEmpty /\ [][NextEmpty]_vars

(* C33: every attempt that has ended has left no controller of its own      *)
(* registered, and every iteration of the chunk loop that is answered and   *)
(* goes on to another request has increased downloadedBytes, so that the    *)
(* loop ends after at most totalBytes iterations.                           *)
C33_ChunkLoopAdvances ==
    /\ [](\A l \in LoopIds : loops[l].pc = "done" => controllers[loops[l].m] # l)
    /\ [][\A l \in LoopIds :
             (IdbPutChunk(l) /\ loops'[l].pc = "i_fetch") =>
                 loops'[l].downloaded > loops[l].downloaded]_vars

====
